---- MODULE Spec2Model ----
(***************************************************************************)
(* The attendance dashboard of src/app.py as a state machine.  One script  *)
(* run (a Streamlit rerun, triggered by every operator interaction) is one *)
(* action, Rerun: cached load, preprocessing, sidebar widgets, the row     *)
(* filter, and the two aggregate tables.  Time, the spreadsheet service    *)
(* and the worksheet's content change through the environment actions.     *)
(*                                                                         *)
(* Representation.  A worksheet or DataFrame is [cols, rows]: the set of   *)
(* column names and the sequence of rows, each a function from column name *)
(* to cell.  A DataFrame cell is NaN (<<>>) or <<v>>.  Timezone offsets    *)
(* are integers in quarter hours (5.75 h = 23), strings that the code      *)
(* searches or slices are sequences of one-character strings or digits.    *)
(***************************************************************************)
EXTENDS Integers, Sequences, FiniteSets, TLC

VARIABLES
    sheet,                 \* the worksheet behind SHEET_URL / SHEET_NAME
    source_ok,             \* whether the spreadsheet service answers
    clock,                 \* seconds
    cache,                 \* st.cache_data entry: <<>> or <<[table, stored]>>
    fetches,               \* executions of load_data_from_gsheets' body
    load_result,           \* what the last load did: none | hit | fetched | failed
    df_raw,                \* line 59
    df,                    \* line 62
    selected_batch_range,  \* <<>> (None) or <<lo, hi>> of short ids
    selected_tz_range,     \* <<lo, hi>>
    email_query,           \* line 110
    time_granularity,      \* line 88
    df_filtered,           \* the index labels (row positions of df) kept
    outcome,               \* how the script run ended
    freq_detailed,         \* Analysis 1 table
    freq_detailed_2        \* Analysis 2 table

vars == <<sheet, source_ok, clock, cache, fetches, load_result, df_raw, df,
          selected_batch_range, selected_tz_range, email_query,
          time_granularity, df_filtered, outcome, freq_detailed,
          freq_detailed_2>>

---------------------------------------------------------------------------
(* Bounds of the model *)

MaxRows == 2
MaxBatchRows == 3
MaxAggRows == 3
MaxTime == 1200
TickStep == 300

(* Program constants *)

TTL == 600

---------------------------------------------------------------------------
(* Column names *)

TZ == "TimeZones Dif vs COT"
BATCH == "batch_id"
SHORT == "short_batch_id"
EMAIL == "public_email"
BIO == "public_email_biography"
ST1 == "After 1ST status"
ST2 == "After RCP Status"
B1_30 == "1ST COL 30min Block"
B2_30 == "RCP COL 30min Block"
B1_2H == "1ST COL 2h Block"
B2_2H == "RCP COL 2h Block"

NumCols == {TZ, BATCH}
TextCols == {EMAIL, BIO}
LabelCols == {ST1, ST2, B1_30, B2_30, B1_2H, B2_2H}
SheetCols == NumCols \cup TextCols \cup LabelCols

---------------------------------------------------------------------------
(* Cells *)

NaN == <<>>
IsNa(c) == c = NaN
Val(c) == c[1]

\* Worksheet cells of a numeric column: empty, a number, or some text.
EmptyNum == [k |-> "empty", v |-> 0]
Num(n) == [k |-> "num", v |-> n]
TextInNum == [k |-> "text", v |-> 0]

Min(a, b) == IF a <= b THEN a ELSE b

Range(s) == {s[i] : i \in DOMAIN s}

RECURSIVE SumOver(_, _)
SumOver(f, S) ==
    IF S = {} THEN 0
    ELSE LET x == CHOOSE y \in S : TRUE IN f[x] + SumOver(f, S \ {x})

---------------------------------------------------------------------------
(* load_data_from_gsheets *)

\* gspread_dataframe reads the sheet through pandas' parser: an empty cell
\* (the empty string) becomes NaN, anything else is kept.
ParseCell(col, c) ==
    IF col \in NumCols THEN (IF c.k = "empty" THEN NaN ELSE <<c>>)
    ELSE IF col \in TextCols THEN (IF c = <<>> THEN NaN ELSE <<c>>)
    ELSE (IF c = "" THEN NaN ELSE <<c>>)

GetAsDataframe(ws) ==
    [cols |-> ws.cols,
     rows |-> [i \in DOMAIN ws.rows |->
                 [c \in ws.cols |-> ParseCell(c, ws.rows[i][c])]]]

\* df.dropna(how='all', axis=1).dropna(how='all', axis=0)
DropAllNaN(d) ==
    LET keep == {c \in d.cols : \E i \in DOMAIN d.rows : ~IsNa(d.rows[i][c])}
        cut == [i \in DOMAIN d.rows |-> [c \in keep |-> d.rows[i][c]]]
    IN  [cols |-> keep,
         rows |-> SelectSeq(cut, LAMBDA r : \E c \in keep : ~IsNa(r[c]))]

EmptyFrame == [cols |-> {}, rows |-> <<>>]

FrameEmpty(d) == d.cols = {} \/ d.rows = <<>>

\* The function's body: the fetched table, or pd.DataFrame() when anything
\* in the try block raised.
LoadDataFromGsheets(ok, ws) ==
    IF ok THEN DropAllNaN(GetAsDataframe(ws)) ELSE EmptyFrame

\* @st.cache_data(ttl=600): an entry is served while now < stored + ttl.
CacheValid(c, now) == c # <<>> /\ now < c[1].stored + TTL

\* As if a failure's empty table were not stored.
CacheStoreUnlessEmpty(table, now) ==
    IF FrameEmpty(table) THEN <<>> ELSE <<[table |-> table, stored |-> now]>>

\* Whatever the body returned is stored, a failure's empty table included.
CacheStore(table, now) == <<[table |-> table, stored |-> now]>>

---------------------------------------------------------------------------
(* preprocess_data *)

\* pd.to_numeric(errors='coerce')
ToNumeric(c) ==
    IF IsNa(c) THEN NaN
    ELSE IF Val(c).k = "num" THEN <<Val(c).v>> ELSE NaN

\* str(n) for n >= 0, as a sequence of digits
RECURSIVE Digits(_)
Digits(n) == IF n < 10 THEN <<n>> ELSE Append(Digits(n \div 10), n % 10)

\* s[a:b] for 0 <= a <= b
StrSlice(s, a, b) == SubSeq(s, Min(a + 1, Len(s) + 1), Min(b, Len(s)))

\* .astype(np.int64).astype(str).str[3:7]
ShortBatchId(n) == StrSlice(Digits(n), 3, 7)

Preprocess(d) ==
    IF FrameEmpty(d) THEN d
    ELSE
      LET d1 == IF TZ \in d.cols
                THEN [d EXCEPT !.rows = [i \in DOMAIN d.rows |->
                        [d.rows[i] EXCEPT ![TZ] = ToNumeric(@)]]]
                ELSE d
      IN  IF BATCH \in d1.cols
          THEN [cols |-> d1.cols \cup {SHORT},
                rows |-> [i \in DOMAIN d1.rows |->
                    LET b == ToNumeric(d1.rows[i][BATCH])
                    IN  [c \in d1.cols \cup {SHORT} |->
                           IF c = BATCH THEN b
                           ELSE IF c = SHORT
                                THEN (IF IsNa(b) THEN NaN
                                      ELSE <<ShortBatchId(Val(b))>>)
                                ELSE d1.rows[i][c]]]]
          ELSE d1

---------------------------------------------------------------------------
(* Sidebar widgets *)

\* Python's <= on the strings of digits
RECURSIVE StrLeq(_, _)
StrLeq(a, b) ==
    IF a = <<>> THEN TRUE
    ELSE IF b = <<>> THEN FALSE
    ELSE IF a[1] = b[1] THEN StrLeq(Tail(a), Tail(b))
    ELSE a[1] < b[1]

RECURSIVE SortedStrs(_)
SortedStrs(S) ==
    IF S = {} THEN <<>>
    ELSE LET m == CHOOSE x \in S : \A y \in S : StrLeq(x, y)
         IN  <<m>> \o SortedStrs(S \ {m})

\* sorted(df['short_batch_id'].dropna().unique())
SortedShortBatches(d) ==
    SortedStrs({Val(d.rows[i][SHORT]) :
                  i \in {j \in DOMAIN d.rows : ~IsNa(d.rows[j][SHORT])}})

\* What the batch expander can leave in selected_batch_range: None, or a
\* pair of slider options, the lower position first.
BatchChoices(d) ==
    IF SHORT \in d.cols
    THEN LET opts == SortedShortBatches(d)
         IN  {<<opts[p[1]], opts[p[2]]>> :
                p \in {x \in (DOMAIN opts) \X (DOMAIN opts) : x[1] <= x[2]}}
             \cup (IF opts = <<>> THEN {<<>>} ELSE {})
    ELSE {<<>>}

\* clean_tz = df['TimeZones Dif vs COT'].dropna()
CleanTz(d) == {Val(d.rows[i][TZ]) :
                 i \in {j \in DOMAIN d.rows : ~IsNa(d.rows[j][TZ])}}

\* np.floor(min_tz * 2) / 2 and np.ceil(max_tz * 2) / 2, in quarter hours
FloorHalf(x) == 2 * (x \div 2)
CeilHalf(x) == 0 - 2 * ((0 - x) \div 2)

SetMin(S) == CHOOSE x \in S : \A y \in S : x <= y
SetMax(S) == CHOOSE x \in S : \A y \in S : y <= x

\* What the timezone slider (step 0.5) can return, or (0, 0) without data.
\* A slider whose two ends coincide returns that one point.
TzChoices(d) ==
    LET clean_tz == CleanTz(d)
    IN  IF clean_tz # {}
        THEN LET lo == FloorHalf(SetMin(clean_tz))
                 hi == CeilHalf(SetMax(clean_tz))
                 stops == {x \in lo..hi : (x - lo) % 2 = 0}
             IN  {p \in stops \X stops : p[1] <= p[2]}
        ELSE {<<0, 0>>}

Granularities == {"30 minutes", "2 hours"}

---------------------------------------------------------------------------
(* Row filter *)

\* Series.between(lo, hi) on short ids; NaN compares False
BatchBetween(c, sel) ==
    ~IsNa(c) /\ StrLeq(sel[1], Val(c)) /\ StrLeq(Val(c), sel[2])

\* As if no batch range meant every batch.
BatchStepShowAll(d, idx, sel) ==
    IF sel # <<>>
    THEN SelectSeq(idx, LAMBDA i : BatchBetween(d.rows[i][SHORT], sel))
    ELSE idx

\* lines 115-118
BatchStep(d, idx, sel) ==
    IF sel # <<>>
    THEN SelectSeq(idx, LAMBDA i : BatchBetween(d.rows[i][SHORT], sel))
    ELSE <<>>

TzKeeps(c, sel) == IsNa(c) \/ (sel[1] <= Val(c) /\ Val(c) <= sel[2])

\* lines 120-124
TzStep(d, idx, sel) ==
    IF sel # <<0, 0>>
    THEN SelectSeq(idx, LAMBDA i : TzKeeps(d.rows[i][TZ], sel))
    ELSE idx

UpperCase == <<"A", "B", "C", "D", "E", "F", "G", "H", "I", "J", "K", "L", "M",
               "N", "O", "P", "Q", "R", "S", "T", "U", "V", "W", "X", "Y", "Z">>
LowerCase == <<"a", "b", "c", "d", "e", "f", "g", "h", "i", "j", "k", "l", "m",
               "n", "o", "p", "q", "r", "s", "t", "u", "v", "w", "x", "y", "z">>

Lower(ch) ==
    IF \E i \in DOMAIN UpperCase : UpperCase[i] = ch
    THEN LowerCase[CHOOSE i \in DOMAIN UpperCase : UpperCase[i] = ch]
    ELSE ch

\* Series.astype(str): a missing value becomes the text 'nan'
AsTypeStr(c) == IF IsNa(c) THEN <<"n", "a", "n">> ELSE Val(c)

\* re.compile(pat) over patterns of letters, digits, "." and "(": an
\* unclosed group is an error.
RegexError(pat) == "(" \in Range(pat)

\* re.search(pat, s, re.IGNORECASE) at position i: "." matches any character
RegexMatchAt(pat, s, i) ==
    \A j \in DOMAIN pat : pat[j] = "." \/ Lower(pat[j]) = Lower(s[i + j - 1])

\* .str.contains(pat, case=False, na=False), regex=True by default
StrContains(s, pat) ==
    \E i \in 1..(Len(s) - Len(pat) + 1) : RegexMatchAt(pat, s, i)

TextKeeps(r, q) ==
    StrContains(AsTypeStr(r[EMAIL]), q) \/ StrContains(AsTypeStr(r[BIO]), q)

\* lines 126-130
TextStep(d, idx, q) ==
    IF q # <<>>
    THEN SelectSeq(idx, LAMBDA i : TextKeeps(d.rows[i], q))
    ELSE idx

\* As if the first remaining row were sliced off with the header (.iloc[1:]).
ApplyFiltersSkipFirst(d, idx, bsel, tsel, q) ==
    LET kept == TextStep(d, TzStep(d, BatchStep(d, idx, bsel), tsel), q)
    IN  IF kept = <<>> THEN kept ELSE Tail(kept)

\* lines 113-130, from the index labels idx of d
ApplyFilters(d, idx, bsel, tsel, q) ==
    TextStep(d, TzStep(d, BatchStep(d, idx, bsel), tsel), q)

Index(d) == [i \in DOMAIN d.rows |-> i]

---------------------------------------------------------------------------
(* Aggregate tables *)

NoTable == [built |-> FALSE,
            data |-> [b \in {} |-> 0], total |-> [c \in {} |-> 0],
            pct |-> [b \in {} |-> 0], total_pct |-> [c \in {} |-> 0]]

\* freq[c] = colvals: a new column, or the existing one overwritten
AssignColumn(t, c, colvals) ==
    [b \in DOMAIN t |->
       [k \in (DOMAIN t[b]) \cup {c} |-> IF k = c THEN colvals[b] ELSE t[b][k]]]

\* freq[cols].sum(axis=1)
RowSums(t, cols) == [b \in DOMAIN t |-> SumOver(t[b], cols)]

\* pd.crosstab(d[bcol], d[scol]) over the rows idx
Crosstab(d, idx, bcol, scol) ==
    LET blocks == {Val(d.rows[i][bcol]) : i \in Range(idx)}
        labels == {Val(d.rows[i][scol]) : i \in Range(idx)}
    IN  [b \in blocks |-> [l \in labels |->
           Cardinality({i \in Range(idx) :
               d.rows[i][bcol] = <<b>> /\ d.rows[i][scol] = <<l>>})]]

\* a / b * 100, kept as the exact quotient <<100 * a, b>>
Pct(a, b) == <<100 * a, b>>

\* lines 211-228 (1ST call) and 246-263 (RCP call)
BuildTable(d, filtered, bcol, scol, literals) ==
    LET idx == SelectSeq(filtered, LAMBDA i :
                   ~IsNa(d.rows[i][bcol]) /\ ~IsNa(d.rows[i][scol]))
    IN  IF idx = <<>> THEN NoTable
        ELSE
          LET freq == Crosstab(d, idx, bcol, scol)
              blocks == DOMAIN freq
              columns == {Val(d.rows[i][scol]) : i \in Range(idx)}
              no_show_statuses == {c \in literals : c \in columns}
              show_up_statuses == columns \ no_show_statuses
              t1 == AssignColumn(freq, "Grand Total", RowSums(freq, columns))
              t2 == AssignColumn(t1, "No Show", RowSums(t1, no_show_statuses))
              t3 == AssignColumn(t2, "Showed Up", RowSums(t2, show_up_statuses))
              allcols == columns \cup {"Grand Total", "No Show", "Showed Up"}
              gtsum == SumOver([b \in blocks |-> t3[b]["Grand Total"]], blocks)
              total_row == [c \in allcols |->
                              SumOver([b \in blocks |-> t3[b][c]], blocks)]
          IN  [built |-> TRUE,
               data |-> t3,
               total |-> total_row,
               pct |-> [b \in blocks |->
                  [c \in {"Showed Up %", "No Show %", "Weight %"} |->
                     IF c = "Showed Up %"
                     THEN Pct(t3[b]["Showed Up"], t3[b]["Grand Total"])
                     ELSE IF c = "No Show %"
                     THEN Pct(t3[b]["No Show"], t3[b]["Grand Total"])
                     ELSE Pct(t3[b]["Grand Total"], gtsum)]],
               total_pct |-> [c \in {"Showed Up %", "No Show %", "Weight %"} |->
                     IF c = "Showed Up %"
                     THEN Pct(total_row["Showed Up"], total_row["Grand Total"])
                     ELSE IF c = "No Show %"
                     THEN Pct(total_row["No Show"], total_row["Grand Total"])
                     ELSE Pct(1, 1)]]

NoShowLiterals1 == {"Cancelled", "No-Show"}
NoShowLiterals2 == {"Cancelled", "No-Show", "No-show"}

\* lines 201-206
BlockCol1(gran) == IF gran = "30 minutes" THEN B1_30 ELSE B1_2H
BlockCol2(gran) == IF gran = "30 minutes" THEN B2_30 ELSE B2_2H

---------------------------------------------------------------------------
(* One script run, lines 61-280, on the preprocessed table d with the      *)
(* widget values of this run.  A column access on a missing column raises  *)
(* KeyError and an unparsable pattern re.error; nothing catches either.    *)

Unset == [outcome |-> "empty", df |-> EmptyFrame, sbr |-> <<>>, stz |-> <<>>,
          q |-> <<>>, gran |-> "", filtered |-> <<>>,
          t1 |-> NoTable, t2 |-> NoTable]

Script(d, gran, q, bsel, tsel) ==
    LET w == [Unset EXCEPT !.df = d, !.sbr = bsel, !.gran = gran]
        f == [w EXCEPT !.stz = tsel, !.q = q]
        filtered == ApplyFilters(d, Index(d), bsel, tsel, q)
        g == [f EXCEPT !.filtered = filtered]
        a1 == [g EXCEPT !.t1 = BuildTable(d, filtered, BlockCol1(gran), ST1,
                                          NoShowLiterals1)]
    IN  IF TZ \notin d.cols
        THEN [w EXCEPT !.outcome = "KeyError: timezone"]          \* line 91
        ELSE IF q # <<>> /\ EMAIL \notin d.cols
        THEN [f EXCEPT !.outcome = "KeyError: email"]             \* line 128
        ELSE IF q # <<>> /\ RegexError(q)
        THEN [f EXCEPT !.outcome = "re.error"]                    \* line 128
        ELSE IF q # <<>> /\ BIO \notin d.cols
        THEN [f EXCEPT !.outcome = "KeyError: biography"]         \* line 129
        ELSE IF filtered = <<>>
        THEN [g EXCEPT !.outcome = "nodata"]                      \* line 134
        ELSE IF ST1 \notin d.cols \/ ST2 \notin d.cols
        THEN [g EXCEPT !.outcome = "KeyError: status"]            \* 187, 193
        ELSE IF BlockCol1(gran) \notin d.cols
        THEN [g EXCEPT !.outcome = "KeyError: block 1"]           \* line 211
        ELSE IF BlockCol2(gran) \notin d.cols
        THEN [a1 EXCEPT !.outcome = "KeyError: block 2"]          \* line 246
        ELSE [a1 EXCEPT !.outcome = "ok",
                        !.t2 = BuildTable(d, filtered, BlockCol2(gran), ST2,
                                          NoShowLiterals2)]

\* What the operator may type into "Search by email".
Queries == {<<>>, <<"a", "c">>, <<"n", "a", "n">>, <<"a", ".">>, <<"(">>}

\* The sliders' initial values: the whole range.
BatchDefault(d) ==
    IF SHORT \in d.cols /\ SortedShortBatches(d) # <<>>
    THEN LET opts == SortedShortBatches(d) IN <<opts[1], opts[Len(opts)]>>
    ELSE <<>>

TzDefault(d) ==
    IF CleanTz(d) # {}
    THEN <<FloorHalf(SetMin(CleanTz(d))), CeilHalf(SetMax(CleanTz(d)))>>
    ELSE <<0, 0>>

\* A widget keeps the value of the last run while that value is still one it
\* offers, and starts from its initial value otherwise.
Kept(d) ==
    <<IF time_granularity \in Granularities THEN time_granularity
      ELSE "30 minutes",
      email_query,
      IF selected_batch_range \in BatchChoices(d) THEN selected_batch_range
      ELSE BatchDefault(d),
      IF selected_tz_range \in TzChoices(d) THEN selected_tz_range
      ELSE TzDefault(d)>>

\* The widget values one run can see, given the table it loaded: those of
\* the last run, with at most the one widget changed that the operator
\* touched (none on the very first run).
WidgetValues(d) ==
    IF FrameEmpty(d) THEN {<<"", <<>>, <<>>, <<>> >>}
    ELSE IF TZ \notin d.cols
    THEN {<<g, <<>>, b, <<>> >> : g \in Granularities, b \in BatchChoices(d)}
    ELSE LET k == Kept(d)
         IN  {w \in Granularities \X Queries \X BatchChoices(d) \X TzChoices(d) :
                Cardinality({i \in 1..4 : w[i] # k[i]})
                   <= (IF outcome = "none" THEN 0 ELSE 1)}

\* One interaction: the script runs top to bottom, once.
Rerun ==
    \E hit \in {CacheValid(cache, clock)} :
       \E raw \in {IF hit THEN cache[1].table
                   ELSE LoadDataFromGsheets(source_ok, sheet)} :
       \E d \in {Preprocess(raw)} :
       \E w \in WidgetValues(d) :
       \E r \in {IF FrameEmpty(raw) THEN Unset
                 ELSE Script(d, w[1], w[2], w[3], w[4])} :
          /\ cache' = IF hit THEN cache ELSE CacheStore(raw, clock)
          /\ fetches' = IF hit THEN fetches ELSE fetches + 1
          /\ load_result' = IF hit THEN "hit"
                            ELSE IF source_ok THEN "fetched" ELSE "failed"
          /\ df_raw' = raw
          /\ df' = r.df
          /\ selected_batch_range' = r.sbr
          /\ selected_tz_range' = r.stz
          /\ email_query' = r.q
          /\ time_granularity' = r.gran
          /\ df_filtered' = r.filtered
          /\ outcome' = r.outcome
          /\ freq_detailed' = r.t1
          /\ freq_detailed_2' = r.t2
          /\ UNCHANGED <<sheet, source_ok, clock>>

---------------------------------------------------------------------------
(* Environment *)

Tick ==
    /\ clock + TickStep <= MaxTime
    /\ clock' = clock + TickStep
    /\ UNCHANGED <<sheet, source_ok, cache, fetches, load_result, df_raw, df,
                   selected_batch_range, selected_tz_range, email_query,
                   time_granularity, df_filtered, outcome, freq_detailed,
                   freq_detailed_2>>

SourceFails ==
    /\ source_ok
    /\ source_ok' = FALSE
    /\ UNCHANGED <<sheet, clock, cache, fetches, load_result, df_raw, df,
                   selected_batch_range, selected_tz_range, email_query,
                   time_granularity, df_filtered, outcome, freq_detailed,
                   freq_detailed_2>>

SourceRecovers ==
    /\ ~source_ok
    /\ source_ok' = TRUE
    /\ UNCHANGED <<sheet, clock, cache, fetches, load_result, df_raw, df,
                   selected_batch_range, selected_tz_range, email_query,
                   time_granularity, df_filtered, outcome, freq_detailed,
                   freq_detailed_2>>

---------------------------------------------------------------------------
(* Worksheets the runs are checked on *)

Row(batch, tz, email, bio, st1, st2, b30, b2h) ==
    [c \in SheetCols |->
       IF c = BATCH THEN batch ELSE IF c = TZ THEN tz
       ELSE IF c = EMAIL THEN email ELSE IF c = BIO THEN bio
       ELSE IF c = ST1 THEN st1 ELSE IF c = ST2 THEN st2
       ELSE IF c \in {B1_30, B2_30} THEN b30 ELSE b2h]

SeqsUpTo(S, n) == UNION {[1..k -> S] : k \in 0..n}

Sheet(cols, rows) ==
    [cols |-> cols, rows |-> [i \in DOMAIN rows |-> [c \in cols |-> rows[i][c]]]]

Txt_xy == <<"x", "y">>
Txt_Ac == <<"A", "c">>
Txt_ACME == <<"A", "C", "M", "E">>

BaseRow == Row(Num(1000001), Num(2), Txt_xy, Txt_ACME,
               "Attended", "Attended", "08:00", "08-10")

\* Rows for the row filter: batch ids with different short ids, offsets on
\* both sides of zero, and each field missing or unusable in turn.
FilterRows ==
    {Row(b, t, Txt_xy, Txt_ACME, "Attended", "Cancelled", "08:00", "08-10") :
       b \in {Num(1000001), Num(1005000)}, t \in {Num(0 - 1), Num(2)}}
    \cup
    {Row(EmptyNum, Num(2), Txt_xy, Txt_ACME, "Attended", "Cancelled", "08:00", "08-10"),
     Row(Num(1000001), EmptyNum, Txt_xy, Txt_ACME, "Attended", "Cancelled", "08:00", "08-10"),
     Row(Num(1005000), TextInNum, Txt_xy, Txt_ACME, "Attended", "Cancelled", "08:00", "08-10"),
     Row(Num(1000001), Num(2), <<>>, <<>>, "Attended", "Cancelled", "08:00", "08-10"),
     Row(Num(1000001), Num(2), Txt_Ac, <<>>, "Attended", "Cancelled", "08:00", "08-10"),
     Row(Num(1000001), Num(2), Txt_xy, <<>>, "Attended", "Cancelled", "08:00", "08-10")}

\* Rows that differ in the batch id only.
BatchRows ==
    {Row(b, Num(2), Txt_xy, Txt_ACME, "Attended", "Cancelled", "08:00", "08-10") :
       b \in {EmptyNum, TextInNum, Num(12), Num(1000001), Num(1005000),
              Num(1010001)}}

\* Rows with one cell emptied, on sheets with any one column absent.
ColumnRows ==
    {BaseRow} \cup
    {[BaseRow EXCEPT ![c] = IF c \in NumCols THEN EmptyNum
                            ELSE IF c \in TextCols THEN <<>> ELSE ""] :
       c \in {TZ, BATCH, EMAIL, ST1, B2_30}}

\* Rows that differ in time block and outcome label (the same in both stages).
Labels == {"", "Cancelled", "No-Show", "No-show", "Attended", "No Show",
           "Grand Total"}

AggRows ==
    {Row(Num(1000001), Num(0), Txt_Ac, Txt_ACME, l, l, b,
         IF b = "" THEN "" ELSE "08-10") :
       l \in Labels, b \in {"", "08:00", "08:30"}}

SheetA == Sheet(SheetCols, <<BaseRow>>)
SheetB == Sheet(SheetCols,
                <<Row(Num(1005000), Num(5), Txt_Ac, <<>>, "No-show", "No-show",
                      "08:30", "08-10")>>)

InitRun ==
    /\ clock = 0
    /\ cache = <<>>
    /\ fetches = 0
    /\ load_result = "none"
    /\ df_raw = EmptyFrame
    /\ df = Unset.df
    /\ selected_batch_range = Unset.sbr
    /\ selected_tz_range = Unset.stz
    /\ email_query = Unset.q
    /\ time_granularity = Unset.gran
    /\ df_filtered = Unset.filtered
    /\ outcome = "none"
    /\ freq_detailed = NoTable
    /\ freq_detailed_2 = NoTable

Init ==
    /\ sheet \in {SheetA, SheetB}
    /\ source_ok \in BOOLEAN
    /\ InitRun

InitFilter ==
    /\ sheet \in {Sheet(SheetCols, rs) : rs \in SeqsUpTo(FilterRows, MaxRows)}
    /\ source_ok = TRUE
    /\ InitRun

InitBatch ==
    /\ sheet \in {Sheet(SheetCols, rs) : rs \in SeqsUpTo(BatchRows, MaxBatchRows)}
    /\ source_ok = TRUE
    /\ InitRun

InitColumns ==
    /\ sheet \in {Sheet(SheetCols \ missing, rs) :
                    missing \in {{}} \cup {{c} : c \in SheetCols},
                    rs \in SeqsUpTo(ColumnRows, MaxRows)}
    /\ source_ok = TRUE
    /\ InitRun

InitAgg ==
    /\ sheet \in {Sheet(SheetCols, rs) : rs \in SeqsUpTo(AggRows, MaxAggRows)}
    /\ source_ok = TRUE
    /\ InitRun

\* Someone edits the worksheet.
SheetEdit ==
    /\ sheet' \in {SheetA, SheetB} \ {sheet}
    /\ UNCHANGED <<source_ok, clock, cache, fetches, load_result, df_raw, df,
                   selected_batch_range, selected_tz_range, email_query,
                   time_granularity, df_filtered, outcome, freq_detailed,
                   freq_detailed_2>>

Next == Rerun \/ Tick \/ SourceFails \/ SourceRecovers \/ SheetEdit

\* The dashboard over time: reruns, the clock, the service and the sheet.
Spec == Init /\ [][Next]_vars

\* Reruns over every worksheet of a family, at one instant.
SpecFilter == InitFilter /\ [][Rerun]_vars
SpecBatch == InitBatch /\ [][Rerun]_vars
SpecColumns == InitColumns /\ [][Rerun]_vars
SpecAgg == InitAgg /\ [][Rerun]_vars

---------------------------------------------------------------------------
(* Vocabulary of the properties *)

\* The run got as far as the end of the row filter.
FilterRan ==
    outcome \in {"nodata", "ok", "KeyError: status", "KeyError: block 1",
                 "KeyError: block 2"}

KeyErrors ==
    {"KeyError: timezone", "KeyError: email", "KeyError: biography",
     "KeyError: status", "KeyError: block 1", "KeyError: block 2"}

InOutput(i) == i \in Range(df_filtered)

\* Records a stage's table is built from: in the filter output, in block b.
InBlock(bcol, b) == {i \in Range(df_filtered) : df.rows[i][bcol] = <<b>>}

LabelOf(scol, i) == df.rows[i][scol]

\* lowercase(q) is a contiguous substring of lowercase(s), character by
\* character
LiteralContains(s, q) ==
    \E i \in 1..(Len(s) - Len(q) + 1) :
       \A j \in DOMAIN q : Lower(q[j]) = Lower(s[i + j - 1])

\* An absent field read as the empty string
FieldText(c) == IF IsNa(c) THEN <<>> ELSE Val(c)

---------------------------------------------------------------------------
(* Aggregate tables: C1, C2 *)

TableSums(t, bcol, scol) ==
    t.built =>
      /\ \A b \in DOMAIN t.data :
           /\ t.data[b]["Grand Total"] =
                Cardinality({i \in InBlock(bcol, b) : ~IsNa(LabelOf(scol, i))})
           /\ t.data[b]["Showed Up"] + t.data[b]["No Show"] =
                t.data[b]["Grand Total"]
      /\ t.total["Grand Total"] =
           SumOver([b \in DOMAIN t.data |-> t.data[b]["Grand Total"]],
                   DOMAIN t.data)

\* C1: in both stages' tables, whatever the outcome labels are, every data
\* row has Grand Total = the sum of its raw outcome counts and Showed Up +
\* No Show = Grand Total, and the Grand Total row's Grand Total is the sum
\* of the data rows' Grand Total.
C1_TableSums ==
    /\ TableSums(freq_detailed, BlockCol1(time_granularity), ST1)
    /\ TableSums(freq_detailed_2, BlockCol2(time_granularity), ST2)

Classified(t, bcol, scol, literals) ==
    t.built =>
      \A b \in DOMAIN t.data :
        LET present == {i \in InBlock(bcol, b) : ~IsNa(LabelOf(scol, i))}
            noshow == {i \in present : Val(LabelOf(scol, i)) \in literals}
        IN  /\ t.data[b]["No Show"] = Cardinality(noshow)
            /\ t.data[b]["Showed Up"] = Cardinality(present \ noshow)
            /\ t.data[b]["Grand Total"] = Cardinality(present)

\* C2: in each stage's table a record with a time block counts in No Show
\* when its label is one of the stage's literals ({Cancelled, No-Show} for
\* the 1ST call, plus No-show for the RCP call), in Showed Up when it has any
\* other label, and nowhere when its label cell is empty.
C2_Classification ==
    /\ Classified(freq_detailed, BlockCol1(time_granularity), ST1,
                  {"Cancelled", "No-Show"})
    /\ Classified(freq_detailed_2, BlockCol2(time_granularity), ST2,
                  {"Cancelled", "No-Show", "No-show"})

\* The labels that are also names of derived columns.
DerivedNames == {"Grand Total", "No Show", "Showed Up"}

NoDerivedLabel ==
    \A i \in DOMAIN df.rows : \A scol \in {ST1, ST2} \cap df.cols :
        IsNa(df.rows[i][scol]) \/ Val(df.rows[i][scol]) \notin DerivedNames

\* C1 and C2 on tables whose labels are no derived column's name.
C2_ClassificationOfOtherLabels ==
    NoDerivedLabel => C1_TableSums /\ C2_Classification

\* The asymmetry: a No-show record counted as Showed Up by the 1ST call and
\* as No Show by the RCP call.
C2_AsymmetrySeen ==
    /\ outcome = "ok" /\ freq_detailed.built /\ freq_detailed_2.built
    /\ NoDerivedLabel
    /\ \E b \in DOMAIN freq_detailed.data \cap DOMAIN freq_detailed_2.data :
         /\ freq_detailed.data[b]["Showed Up"] = 1
         /\ freq_detailed.data[b]["No Show"] = 0
         /\ freq_detailed_2.data[b]["No Show"] = 1

---------------------------------------------------------------------------
(* Row filter: C3 - C9 *)

\* The records the batch and the text predicate let through.
PassBatchAndText ==
    Range(TextStep(df, BatchStep(df, Index(df), selected_batch_range),
                   email_query))

PassBatchAndTz ==
    Range(TzStep(df, BatchStep(df, Index(df), selected_batch_range),
                 selected_tz_range))

PassTzAndText ==
    Range(TextStep(df, TzStep(df, Index(df), selected_tz_range), email_query))

\* C3: with an interval [min, max] selected on the timezone slider, min =
\* max included, a record with an offset that passes the other predicates
\* is in the output exactly when min <= offset <= max.
C3_ClosedInterval ==
    (FilterRan /\ CleanTz(df) # {}) =>
      \A i \in PassBatchAndText :
         ~IsNa(df.rows[i][TZ]) =>
            (InOutput(i) <=>
               /\ selected_tz_range[1] <= Val(df.rows[i][TZ])
               /\ Val(df.rows[i][TZ]) <= selected_tz_range[2])

\* C4: a record without a batch id is not removed by the batch range, and a
\* record without an offset is not removed by the timezone interval,
\* whatever range is selected.
C4_InclusiveNull ==
    FilterRan =>
      /\ selected_batch_range # <<>> =>
           \A i \in PassTzAndText : IsNa(df.rows[i][BATCH]) => InOutput(i)
      /\ \A i \in PassBatchAndText : IsNa(df.rows[i][TZ]) => InOutput(i)

\* The timezone half of C4, which the code keeps.
C4_TimezoneNullIncluded ==
    FilterRan =>
      \A i \in PassBatchAndText : IsNa(df.rows[i][TZ]) => InOutput(i)

\* C5: with a query typed, a record that passes the other predicates is in
\* the output exactly when the lowercased query is a literal substring of
\* its lowercased email or biography, an absent field being the empty
\* string; and the search raises no error.
C5_LiteralSubstring ==
    email_query # <<>> =>
      /\ outcome # "re.error"
      /\ FilterRan =>
           \A i \in PassBatchAndTz :
              InOutput(i) <=>
                \/ LiteralContains(FieldText(df.rows[i][EMAIL]), email_query)
                \/ LiteralContains(FieldText(df.rows[i][BIO]), email_query)

\* C6 as stated: each predicate is a no-op when its criterion is unset: no
\* batch range, no timezone interval, or an empty query leaves exactly the
\* records that pass the other two predicates.
C6_NoOpWhenUnset ==
    FilterRan =>
      /\ selected_batch_range = <<>> => Range(df_filtered) = PassTzAndText
      /\ CleanTz(df) = {} => Range(df_filtered) = PassBatchAndText
      /\ email_query = <<>> => Range(df_filtered) = PassBatchAndTz

\* C6 as the code has it: the timezone predicate without an interval and
\* the text predicate with an empty query remove nothing; without a batch
\* range (no batch column, or no valid batch id) the output is empty.
C6_NoOpExceptBatch ==
    FilterRan =>
      /\ selected_batch_range = <<>> => df_filtered = <<>>
      /\ CleanTz(df) = {} => Range(df_filtered) = PassBatchAndText
      /\ email_query = <<>> => Range(df_filtered) = PassBatchAndTz

\* No batch range, and records that pass the timezone and text predicates.
C6_Witness ==
    /\ outcome = "nodata"
    /\ selected_batch_range = <<>>
    /\ PassTzAndText # {}

\* No timezone interval and no query: every record of the batch range kept.
C6_WitnessNoInterval ==
    /\ outcome = "ok"
    /\ CleanTz(df) = {} /\ email_query = <<>>
    /\ selected_batch_range # <<>>
    /\ Len(df_filtered) = Len(df.rows)

BatchVerdict(i) == BatchBetween(df.rows[i][SHORT], selected_batch_range)

WithBatch == {i \in DOMAIN df.rows : ~IsNa(df.rows[i][BATCH])}

\* C7: the batch predicate is an inclusive numeric range over batch ids:
\* equal ids get equal verdicts, an id between two passing ids passes, and
\* both endpoints of the range come from batch ids of the data.
C7_NumericRange ==
    (FilterRan /\ selected_batch_range # <<>>) =>
      /\ \A i, j \in WithBatch :
           df.rows[i][BATCH] = df.rows[j][BATCH] =>
              (BatchVerdict(i) <=> BatchVerdict(j))
      /\ \A a, b, c \in WithBatch :
           (/\ Val(df.rows[a][BATCH]) <= Val(df.rows[b][BATCH])
            /\ Val(df.rows[b][BATCH]) <= Val(df.rows[c][BATCH])
            /\ BatchVerdict(a) /\ BatchVerdict(c)) => BatchVerdict(b)
      /\ \A k \in 1..2 : \E i \in WithBatch :
           selected_batch_range[k] = ShortBatchId(Val(df.rows[i][BATCH]))

\* What the code keeps of C7: the verdict depends on the short id alone and
\* is an interval in the order of the short ids as strings.
C7_ShortIdRange ==
    (FilterRan /\ selected_batch_range # <<>>) =>
      /\ \A i, j \in WithBatch :
           df.rows[i][BATCH] = df.rows[j][BATCH] =>
              (BatchVerdict(i) <=> BatchVerdict(j))
      /\ \A a, b, c \in WithBatch :
           (/\ StrLeq(Val(df.rows[a][SHORT]), Val(df.rows[b][SHORT]))
            /\ StrLeq(Val(df.rows[b][SHORT]), Val(df.rows[c][SHORT]))
            /\ BatchVerdict(a) /\ BatchVerdict(c)) => BatchVerdict(b)
      /\ \A k \in 1..2 : \E i \in WithBatch :
           selected_batch_range[k] = ShortBatchId(Val(df.rows[i][BATCH]))

\* C8: on a loaded table that lacks an expected column, the run ends
\* without an unhandled error.
C8_MissingColumnRecovery ==
    (outcome # "none" /\ ~FrameEmpty(df_raw) /\ SheetCols \ df_raw.cols # {})
       => outcome \notin KeyErrors

\* C9: filtering the output again with the same criteria gives the same
\* records in the same order.
C9_Idempotent ==
    FilterRan =>
      ApplyFilters(df, df_filtered, selected_batch_range, selected_tz_range,
                   email_query) = df_filtered

\* All three criteria active, some records kept and some removed.
C9_Witness ==
    /\ outcome = "ok"
    /\ email_query # <<>>
    /\ selected_tz_range # <<0, 0>>
    /\ df_filtered # <<>>
    /\ Len(df_filtered) < Len(df.rows)

---------------------------------------------------------------------------
(* Cache and fetch failure: C10 *)

InWindow == cache # <<>> /\ clock < cache[1].stored + TTL

\* C10: a failed fetch leaves an empty table in the cache like any result;
\* while the clock is before stored + 600 no step fetches or replaces the
\* entry, and every run is served the stored table, the empty one of a
\* failure included; a fetch happens only outside the window.
C10_CacheWindow ==
    /\ [][InWindow => /\ fetches' = fetches
                      /\ cache' = cache
                      /\ df_raw' = cache[1].table]_vars
    /\ [](load_result = "failed" =>
            /\ cache # <<>>
            /\ cache[1].table = EmptyFrame
            /\ outcome = "empty")
    /\ [](cache # <<>> => df_raw = cache[1].table)

\* A run served the empty table of an earlier failure although the service
\* had recovered, later in the window.
C10_Witness ==
    /\ load_result = "hit"
    /\ cache # <<>> /\ cache[1].table = EmptyFrame
    /\ source_ok
    /\ clock > cache[1].stored /\ clock < cache[1].stored + TTL
    /\ outcome = "empty"
====
